---- MODULE Spec2Model ----
(***************************************************************************)
(* Verification model of examples of the sovereign-ai-stack-book           *)
(* repository:                                                             *)
(*   examples/ch04-bft/src/bft_demo.rs             (BftConsensus)          *)
(*   examples/ch04-bft/src/byzantine_simulation.rs (Agent, Monte Carlo)    *)
(*   examples/ch04-bft/src/dual_model_consensus.rs (two-model consensus)   *)
(*   examples/ch04-bft/src/dual_model.rs           (SimulatedLLM)          *)
(*   examples/ch17-batuta/src/workflow_orchestration.rs (Workflow)         *)
(*   examples/ch19-repartir/src/work_stealing.rs   (Scheduler)             *)
(*   examples/ch05-pmat/src/quality_gates.rs       (MetricsCache)          *)
(***************************************************************************)
EXTENDS Integers, Sequences, FiniteSets, TLC

VARIABLES
    \* ---- bft_demo.rs: struct BftConsensus and the last call made on it
    fault_tolerance,  \* BftConsensus.fault_tolerance (f)
    nodes,            \* BftConsensus.nodes: Vec<Node>, nodes[id + 1] is node id
    op,               \* the last operation performed on the BftConsensus
    input,            \* the argument of the last consensus(input) call
    ret,              \* the Option<i32> returned by the last consensus call
    \* ---- byzantine_simulation.rs: agents and the calls made on them
    agents,           \* the agents in scope: a sequence of Agent {id, failure_rate}
    acall,            \* the last call of Agent::execute / byzantine_consensus
    first,            \* the first call of Agent::execute ever made
    ncalls,           \* how many calls of Agent::execute were made so far
    \* ---- byzantine_simulation.rs: MonteCarloSimulation and its runs
    sim,              \* MonteCarloSimulation {trials, tasks_per_trial}
    rate,             \* the failure_rate the caller hands to every simulate_* call
    run,              \* the simulate_* call in progress: [fn, num_agents]
    loop_trial,       \* loop index `trial` of `for trial in 0..self.trials`
    loop_task_id,     \* loop index `task_id` of `for task_id in 0..self.tasks_per_trial`
    pending,          \* (trial, task_id) pairs not yet executed, when order is free
    acc,              \* the locals total_tasks, total_successes, failure counts
    invoked,          \* how often this call handed each (task_id, seed) to the strategy
    results,          \* the SimulationResults returned so far, per call
    \* ---- dual_model_consensus.rs: the last dual_model_consensus call
    dual,             \* its task, seed, both model responses and the response returned
    \* ---- the rate and comparison arithmetic of the ch04 examples
    stat,             \* the last statistic computed: its operands and its f64 value
    \* ---- dual_model.rs: a SimulatedLLM and the calls made on it
    llm,              \* SimulatedLLM {error_rate, seed} with the results of generate_code
    \* ---- workflow_orchestration.rs: a Workflow
    wf,               \* Workflow {tasks, execution_order} and the last Result returned
    \* ---- work_stealing.rs: a Scheduler
    sched,            \* Scheduler.workers with their queues and processed lists
    \* ---- quality_gates.rs: a MetricsCache
    cache,            \* MetricsCache.cache with the history of set calls and the last get
    \* ---- byzantine_simulation.rs: a loop that executes one agent on consecutive tasks
    tally,            \* the agent, the seed, the loop index and the (success, mode) pairs so far
    \* ---- bft_demo.rs: the set_byzantine calls made on the BftConsensus
    calls,            \* the node_ids slices handed to set_byzantine, in call order
    \* ---- reliability_test.rs: the two systems run on one test case and on one suite
    rel               \* the inputs drawn, the ModelResults, the BenchmarkResults and the failure reduction

bftVars == <<fault_tolerance, nodes, op, input, ret>>

agVars == <<agents, acall, first, ncalls>>

simVars == <<sim, rate, run, loop_trial, loop_task_id, pending, acc, invoked, results>>

moreVars == <<dual, stat, llm, wf, sched, cache, tally, calls, rel>>

vars == <<bftVars, agVars, simVars, moreVars>>

\* the value of a component variable whose component is not in use
Unused == [op |-> "unused"]

\* none of the components added after the Monte Carlo harness is in use
IdleMore ==
    /\ dual = Unused
    /\ stat = Unused
    /\ llm = Unused
    /\ wf = Unused
    /\ sched = Unused
    /\ cache = Unused
    /\ tally = Unused
    /\ calls = Unused
    /\ rel = Unused

(***************************************************************************)
(* Bounds of the model.                                                    *)
(***************************************************************************)
\* largest fault tolerance f a BftConsensus is built with
MaxF == 2
\* longest node_ids slice handed to set_byzantine
MaxIds == 2

\* inputs handed to consensus; all far from the i32 range, so that
\* input * 2 + 999 never overflows
Inputs == {-7, 0, 10, 21}

(***************************************************************************)
(* Option<i32>                                                             *)
(***************************************************************************)
None == [some |-> FALSE, val |-> 0]
Some(v) == [some |-> TRUE, val |-> v]

\* all sequences over S of length at most n
SeqUpTo(S, n) == UNION {[1..k -> S] : k \in 0..n}

\* the orders in which a HashMap with key set K may be iterated
IterationOrders(K) ==
    {o \in [1..Cardinality(K) -> K] : \A i, j \in DOMAIN o : o[i] = o[j] => i = j}

(***************************************************************************)
(* bft_demo.rs: Node                                                       *)
(***************************************************************************)
NodeNew(id, is_byzantine) == [id |-> id, is_byzantine |-> is_byzantine]

Process(node, inp) ==
    IF node.is_byzantine THEN inp * 2 + 999 ELSE inp * 2

(***************************************************************************)
(* bft_demo.rs: BftConsensus                                               *)
(***************************************************************************)
\* a node count of 3f, one node short
NumNodesShort(f) == 3 * f

NumNodes(f) == 3 * f + 1

\* BftConsensus::new: the nodes vector, ids 0..num_nodes-1, all honest
New(f) == [i \in 1..NumNodes(f) |-> NodeNew(i - 1, FALSE)]

\* a threshold of a simple f+1 plurality
ThresholdPlurality(f) == f + 1

Threshold(f) == 2 * f + 1

\* the acceptance test read as the comment "need > 2f + 1 votes"
ReachesStrict(count, threshold) == count > threshold

Reaches(count, threshold) == count >= threshold

\* a node whose flag is flipped
ToggleByzantine(node) == [node EXCEPT !.is_byzantine = ~@]

\* self.nodes[id].is_byzantine = true
MarkByzantine(node) == [node EXCEPT !.is_byzantine = TRUE]

\* the loop of set_byzantine over the slice node_ids
RECURSIVE SetByzantineLoop(_, _)
SetByzantineLoop(ns, node_ids) ==
    IF node_ids = <<>> THEN ns
    ELSE LET id == Head(node_ids)
             ns1 == IF id < Len(ns)
                    THEN [ns EXCEPT ![id + 1] = MarkByzantine(@)]
                    ELSE ns
         IN  SetByzantineLoop(ns1, Tail(node_ids))

\* the vote map built by the first loop of consensus: result -> count
Votes(ns, inp) ==
    LET answers == {Process(ns[i], inp) : i \in DOMAIN ns}
    IN  [r \in answers |-> Cardinality({i \in DOMAIN ns : Process(ns[i], inp) = r})]

\* the second loop of consensus, over the vote map in iteration order `order`
RECURSIVE FirstReaching(_, _, _)
FirstReaching(votes, order, threshold) ==
    IF order = <<>> THEN None
    ELSE IF Reaches(votes[Head(order)], threshold) THEN Some(Head(order))
    ELSE FirstReaching(votes, Tail(order), threshold)

ConsensusResult(ns, f, inp, order) ==
    FirstReaching(Votes(ns, inp), order, Threshold(f))

InitBft ==
    /\ fault_tolerance \in 0..MaxF
    /\ nodes = New(fault_tolerance)
    /\ op = "new"
    /\ input = 0
    /\ ret = None

SetByzantine(node_ids) ==
    /\ nodes' = SetByzantineLoop(nodes, node_ids)
    /\ op' = "set_byzantine"
    /\ input' = 0
    /\ ret' = None
    /\ UNCHANGED <<fault_tolerance, agVars, simVars, moreVars>>

Consensus(inp, order) ==
    /\ ret' = ConsensusResult(nodes, fault_tolerance, inp, order)
    /\ op' = "consensus"
    /\ input' = inp
    /\ UNCHANGED <<fault_tolerance, nodes, agVars, simVars, moreVars>>

DoSetByzantine ==
    \E node_ids \in SeqUpTo(0..NumNodes(MaxF), MaxIds) : SetByzantine(node_ids)

DoConsensus ==
    \E inp \in Inputs :
        \E order \in IterationOrders(DOMAIN Votes(nodes, inp)) : Consensus(inp, order)

\* no agent in scope, nothing called
IdleAgents ==
    /\ agents = <<>>
    /\ acall = [fn |-> "none"]
    /\ first = [fn |-> "none"]
    /\ ncalls = 0

\* the keys of `results`: the simulate_* calls the callers make
SingleKey == [fn |-> "simulate_single_agent", num_agents |-> 1]
BftKey(n) == [fn |-> "simulate_bft_system", num_agents |-> n]
RunKeys == {SingleKey, BftKey(3), BftKey(5)}

IdleRun == [fn |-> "idle", num_agents |-> 0]

\* the accumulators as the `let mut` lines of simulate_* initialise them
EmptyAcc == [total_tasks |-> 0, total_successes |-> 0, failures |-> [m \in {} |-> 0]]

\* the strategy was not invoked yet
NoInvocation == [i \in {} |-> 0]

\* no simulation in use
IdleSim ==
    /\ sim = [trials |-> 0, tasks_per_trial |-> 0]
    /\ rate = 0
    /\ run = IdleRun
    /\ loop_trial = 0
    /\ loop_task_id = 0
    /\ pending = {}
    /\ acc = EmptyAcc
    /\ invoked = NoInvocation
    /\ results = [k \in RunKeys |-> <<>>]

Init == InitBft /\ IdleAgents /\ IdleSim /\ IdleMore

Next == DoSetByzantine \/ DoConsensus

Spec == Init /\ [][Next]_vars

\* number of Byzantine nodes
ByzantineCount == Cardinality({i \in DOMAIN nodes : nodes[i].is_byzantine})

\* number of nodes whose answer to the last input is v
VotesFor(v) == Cardinality({i \in DOMAIN nodes : Process(nodes[i], input) = v})

(***************************************************************************)
(* Claims about BftConsensus (checked under Spec)                          *)
(***************************************************************************)

C4_AtMostOneValueReaches ==
    \A inp \in Inputs :
        LET votes == Votes(nodes, inp)
        IN  /\ Cardinality({v \in DOMAIN votes :
                               votes[v] >= 2 * fault_tolerance + 1}) <= 1
            /\ \A o1, o2 \in IterationOrders(DOMAIN votes) :
                   ConsensusResult(nodes, fault_tolerance, inp, o1)
                       = ConsensusResult(nodes, fault_tolerance, inp, o2)

\* C4 witness: a vote map with two distinct values, one of which was accepted.
C4_Witness ==
    /\ op = "consensus"
    /\ Cardinality(DOMAIN Votes(nodes, input)) = 2
    /\ ret.some

(***************************************************************************)
(* byzantine_simulation.rs: Agent                                          *)
(*                                                                         *)
(* failure_rate is an f64 in the source.  The model keeps it in units of   *)
(* 1/10000: failure_rate = r stands for the literal r / 10000.  The source *)
(* compares (h as f64 / 10000.0) < failure_rate; both sides are the        *)
(* correctly rounded doubles of h/10000 and r/10000, and rounding is       *)
(* monotone and injective on multiples of 1/10000, so the comparison is    *)
(* h < r.  The same holds for mode_hash / 100.0 against 0.60 and 0.85.     *)
(***************************************************************************)
\* largest task_id handed to execute / byzantine_consensus
MaxTaskId == 3
\* largest seed handed to execute / byzantine_consensus (besides 42)
MaxSeed == 3
\* largest id of the single agent of SpecAgent
MaxAgentId == 4
\* most direct calls of Agent::execute in one behaviour
MaxCalls == 3
\* longest uniform agent list (all agents share one failure rate)
MaxAgents == 7
\* longest agent list with individually chosen failure rates
MaxMixed == 3

TaskIds == 0..MaxTaskId
Seeds == (0..MaxSeed) \cup {42}
\* failure rates 0.0, 0.005, 0.03 and 1.0
Rates == {0, 50, 300, 10000}

HashMod == 10000
ModeMod == 100
HallucinationBelow == 60
CorruptionBelow == 85

AgentNew(id, failure_rate) == [id |-> id, failure_rate |-> failure_rate]

\* a hash that also mixes in an implicitly advancing call counter
HashCounting(id, task_id, seed) ==
    (task_id * 31 + id * 17 + seed * 7 + ncalls * 7) % HashMod

\* hash, in units of 1/10000
Hash(id, task_id, seed) == (task_id * 31 + id * 17 + seed * 7) % HashMod

\* mode_hash, in units of 1/100
ModeHash(id, task_id) == (task_id * 13 + id * 19) % ModeMod

\* a failure test that is not strict
FailsInclusive(hash, failure_rate) == hash <= failure_rate

Fails(hash, failure_rate) == hash < failure_rate

\* a split of the failures into three nearly equal parts
FailureModeUniform(mode_hash) ==
    IF mode_hash < 34 THEN "Hallucination"
    ELSE IF mode_hash < 67 THEN "Corruption"
    ELSE "Crash"

FailureModeOf(mode_hash) ==
    IF mode_hash < HallucinationBelow THEN "Hallucination"
    ELSE IF mode_hash < CorruptionBelow THEN "Corruption"
    ELSE "Crash"

\* an execute whose failure mode also mixes in the seed
ExecuteSeededMode(agent, task_id, seed) ==
    IF Fails(Hash(agent.id, task_id, seed), agent.failure_rate)
    THEN [success |-> FALSE,
          mode |-> FailureModeOf((ModeHash(agent.id, task_id) + seed * 7) % ModeMod)]
    ELSE [success |-> TRUE, mode |-> "Success"]

\* Agent::execute: the pair (success, failure_mode)
Execute(agent, task_id, seed) ==
    IF Fails(Hash(agent.id, task_id, seed), agent.failure_rate)
    THEN [success |-> FALSE, mode |-> FailureModeOf(ModeHash(agent.id, task_id))]
    ELSE [success |-> TRUE, mode |-> "Success"]

(***************************************************************************)
(* byzantine_simulation.rs: byzantine_consensus                            *)
(***************************************************************************)
\* a majority test that also accepts exactly half
ReachedWithHalf(successes, n) == successes >= n \div 2

ConsensusReached(successes, n) == successes > n \div 2

\* byzantine_consensus: (consensus_reached, failures), failures a map
\* FailureMode -> count holding the modes that occurred
ByzantineConsensus(ags, task_id, seed) ==
    LET res == [i \in DOMAIN ags |-> Execute(ags[i], task_id, seed)]
        successes == Cardinality({i \in DOMAIN ags : res[i].success})
        failed == {i \in DOMAIN ags : ~res[i].success}
        failures == [m \in {res[i].mode : i \in failed} |->
                        Cardinality({i \in failed : res[i].mode = m})]
    IN  [reached |-> ConsensusReached(successes, Len(ags)), failures |-> failures]

\* the agents built by (0..n).map(|id| Agent::new(id, failure_rate))
UniformAgents(n, failure_rate) == [i \in 1..n |-> AgentNew(i - 1, failure_rate)]

\* agents with ids 0..n-1 and the failure rates rs[1..n]
AgentsWithRates(rs) == [i \in DOMAIN rs |-> AgentNew(i - 1, rs[i])]

AgentLists ==
    {UniformAgents(n, r) : n \in 1..MaxAgents, r \in Rates}
        \cup {AgentsWithRates(rs) : rs \in SeqUpTo(Rates, MaxMixed) \ {<<>>}}

\* no BftConsensus in use
IdleBft ==
    /\ fault_tolerance = 0
    /\ nodes = New(0)
    /\ op = "new"
    /\ input = 0
    /\ ret = None

\* one call of Agent::execute on agents[i]
CallExecute(i, task_id, seed) ==
    /\ ncalls < MaxCalls
    /\ acall' = [fn |-> "execute", agent |-> i, task_id |-> task_id, seed |-> seed,
                 ret |-> Execute(agents[i], task_id, seed)]
    /\ first' = IF first.fn = "none" THEN acall' ELSE first
    /\ ncalls' = ncalls + 1
    /\ UNCHANGED <<agents, bftVars, simVars, moreVars>>

\* one call of byzantine_consensus on the whole agent list
CallByzantineConsensus(task_id, seed) ==
    /\ acall' = [fn |-> "byzantine_consensus", task_id |-> task_id, seed |-> seed,
                 ret |-> ByzantineConsensus(agents, task_id, seed)]
    /\ UNCHANGED <<agents, first, ncalls, bftVars, simVars, moreVars>>

DoExecute ==
    \E i \in DOMAIN agents, task_id \in TaskIds, seed \in Seeds :
        CallExecute(i, task_id, seed)

DoByzantineConsensus ==
    \E task_id \in TaskIds, seed \in Seeds : CallByzantineConsensus(task_id, seed)

\* a single agent, executed repeatedly
InitAgent ==
    /\ agents \in {<<AgentNew(id, r)>> : id \in 0..MaxAgentId, r \in Rates}
    /\ acall = [fn |-> "none"]
    /\ first = [fn |-> "none"]
    /\ ncalls = 0
    /\ IdleBft
    /\ IdleSim
    /\ IdleMore

SpecAgent == InitAgent /\ [][DoExecute]_vars

\* an agent list, handed to byzantine_consensus
InitConsensus ==
    /\ agents \in AgentLists
    /\ acall = [fn |-> "none"]
    /\ first = [fn |-> "none"]
    /\ ncalls = 0
    /\ IdleBft
    /\ IdleSim
    /\ IdleMore

SpecConsensus == InitConsensus /\ [][DoByzantineConsensus]_vars

\* how many agents succeed on the last call's task_id and seed
SuccessCount ==
    Cardinality({i \in DOMAIN agents :
                    Execute(agents[i], acall.task_id, acall.seed).success})

(***************************************************************************)
(* Claims about byzantine_consensus (SpecConsensus) and Agent (SpecAgent)  *)
(***************************************************************************)

\* C5 (as stated): on an agent list of size n = 3f+1, byzantine_consensus
\* reports consensus exactly when at least 2f+1 agents succeed.
C5_QuorumRule ==
    acall.fn = "byzantine_consensus" =>
        \A f \in 0..MaxAgents :
            Len(agents) = 3 * f + 1 =>
                (acall.ret.reached <=> SuccessCount >= 2 * f + 1)

\* C5 (amended): byzantine_consensus reports consensus exactly when more than
\* half of the n agents succeed; for n = 3f+1 that is the 2f+1 quorum when f <= 1.
C5_SimpleMajorityRule ==
    acall.fn = "byzantine_consensus" =>
        /\ acall.ret.reached <=> 2 * SuccessCount > Len(agents)
        /\ \A f \in 0..1 :
              Len(agents) = 3 * f + 1 =>
                  (acall.ret.reached <=> SuccessCount >= 2 * f + 1)

\* C5 witness: four agents (f = 1), exactly three of which succeed.
C5_Witness ==
    /\ acall.fn = "byzantine_consensus"
    /\ Len(agents) = 4
    /\ SuccessCount = 3
    /\ acall.ret.reached

ScenarioAgents == AgentsWithRates(<<0, 0, 10000>>)

\* C6: agents with failure rates 0.0, 0.0 and 1.0 reach consensus for every
\* task_id and seed: the 0.0 agents succeed, the 1.0 agent fails.
C6_ScenarioReachesConsensus ==
    (acall.fn = "byzantine_consensus" /\ agents = ScenarioAgents) =>
        /\ acall.ret.reached
        /\ \A i \in DOMAIN agents :
              Execute(agents[i], acall.task_id, acall.seed).success
                  <=> agents[i].failure_rate = 0
        /\ \E m \in {"Hallucination", "Corruption", "Crash"} :
              acall.ret.failures = (m :> 1)

\* C6 witness: the scenario's call with task_id 0 and seed 42.
C6_Witness ==
    /\ acall.fn = "byzantine_consensus"
    /\ agents = ScenarioAgents
    /\ acall.task_id = 0
    /\ acall.seed = 42
    /\ acall.ret.reached

MaxTrials == 2
\* largest MonteCarloSimulation.tasks_per_trial
MaxTasks == 2
\* most calls of one simulate_* function with the same arguments
MaxRuns == 2

\* failure rates 0.0, 0.005 and 1.0
SimRates == {0, 50, 10000}

MonteCarloNew(trials, tasks_per_trial) ==
    [trials |-> trials, tasks_per_trial |-> tasks_per_trial]

SmallConfigs ==
    {[sim |-> MonteCarloNew(t, k), rate |-> r] :
        t \in 0..MaxTrials, k \in 0..MaxTasks, r \in SimRates}

\* one trial long enough for 31 * task_id + 17 * id to pass 10000 and wrap
\* around, with failure rate 0.01
WrapConfig == [sim |-> MonteCarloNew(1, 323), rate |-> 100]

\* *map.entry(mode).or_insert(0) += count
AddCount(map, mode, count) ==
    [m \in DOMAIN map \cup {mode} |->
        (IF m \in DOMAIN map THEN map[m] ELSE 0) + (IF m = mode THEN count ELSE 0)]

\* for (mode, count) in failures { *all.entry(mode).or_insert(0) += count }
MergeCounts(all, failures) ==
    [m \in DOMAIN all \cup DOMAIN failures |->
        (IF m \in DOMAIN all THEN all[m] ELSE 0)
            + (IF m \in DOMAIN failures THEN failures[m] ELSE 0)]

\* accumulators left over from the previous call
StaleAcc == acc

\* let mut total_successes = 0; let mut total_tasks = 0; ... HashMap::new()
InitialAcc == EmptyAcc

\* a seed taken from the running task count
SeedFromCount(a, trial) == a.total_tasks

\* the seed handed to execute / byzantine_consensus: the trial index
SeedOf(a, trial) == trial

\* the arguments of agent.execute(task_id, trial) and of
\* byzantine_consensus(&agents, task_id, trial) in the two loop bodies
Invocation(a, task, trial) == [task_id |-> task, seed |-> SeedOf(a, trial)]

\* the loop body of simulate_single_agent
SingleBody(a, failure_rate, task, trial) ==
    LET r == Execute(AgentNew(0, failure_rate), task, SeedOf(a, trial))
    IN  [total_tasks |-> a.total_tasks + 1,
         total_successes |-> a.total_successes + (IF r.success THEN 1 ELSE 0),
         failures |-> IF r.success THEN a.failures
                      ELSE AddCount(a.failures, r.mode, 1)]

\* a loop body that counts every task as a success, consensus or not
BftBodyDefaultSuccess(a, num_agents, failure_rate, task, trial) ==
    LET r == ByzantineConsensus(UniformAgents(num_agents, failure_rate),
                                task, SeedOf(a, trial))
    IN  [total_tasks |-> a.total_tasks + 1,
         total_successes |-> a.total_successes + 1,
         failures |-> IF r.reached THEN a.failures
                      ELSE MergeCounts(a.failures, r.failures)]

\* the loop body of simulate_bft_system
BftBody(a, num_agents, failure_rate, task, trial) ==
    LET r == ByzantineConsensus(UniformAgents(num_agents, failure_rate),
                                task, SeedOf(a, trial))
    IN  [total_tasks |-> a.total_tasks + 1,
         total_successes |-> a.total_successes + (IF r.reached THEN 1 ELSE 0),
         failures |-> IF r.reached THEN a.failures
                      ELSE MergeCounts(a.failures, r.failures)]

Body(a, key, failure_rate, task, trial) ==
    IF key.fn = "simulate_single_agent"
    THEN SingleBody(a, failure_rate, task, trial)
    ELSE BftBody(a, key.num_agents, failure_rate, task, trial)

\* SimulationResult { total_tasks, successes, failures }
SimulationResult(a) ==
    [total_tasks |-> a.total_tasks, successes |-> a.total_successes,
     failures |-> a.failures]

\* the nested loops of simulate_*, run in source order from (trial, task) on
RECURSIVE LoopFrom(_, _, _, _, _, _)
LoopFrom(a, key, s, failure_rate, trial, task) ==
    IF trial >= s.trials \/ s.tasks_per_trial = 0 THEN a
    ELSE LET a1 == Body(a, key, failure_rate, task, trial)
         IN  IF task + 1 < s.tasks_per_trial
             THEN LoopFrom(a1, key, s, failure_rate, trial, task + 1)
             ELSE LoopFrom(a1, key, s, failure_rate, trial + 1, 0)

\* what simulate_* returns for `key` under the current sim and rate
SequentialResult(key) ==
    SimulationResult(LoopFrom(InitialAcc, key, sim, rate, 0, 0))

AllPairs == {<<t, k>> : t \in 0..(sim.trials - 1), k \in 0..(sim.tasks_per_trial - 1)}

\* entry of simulate_single_agent / simulate_bft_system
Start(key, anyOrder, cap) ==
    /\ run = IdleRun
    /\ Len(results[key]) < cap
    /\ run' = key
    /\ loop_trial' = 0
    /\ loop_task_id' = 0
    /\ pending' = IF anyOrder THEN AllPairs ELSE {}
    /\ acc' = InitialAcc
    /\ invoked' = NoInvocation
    /\ UNCHANGED <<sim, rate, results, bftVars, agVars, moreVars>>

\* one iteration of the nested loops, in source order
LoopStep ==
    /\ run # IdleRun
    /\ loop_trial < sim.trials
    /\ loop_task_id < sim.tasks_per_trial
    /\ acc' = Body(acc, run, rate, loop_task_id, loop_trial)
    /\ invoked' = AddCount(invoked, Invocation(acc, loop_task_id, loop_trial), 1)
    /\ IF loop_task_id + 1 < sim.tasks_per_trial
       THEN loop_task_id' = loop_task_id + 1 /\ loop_trial' = loop_trial
       ELSE loop_task_id' = 0 /\ loop_trial' = loop_trial + 1
    /\ UNCHANGED <<sim, rate, run, pending, results, bftVars, agVars, moreVars>>

\* one iteration of the loop body on any pair not yet executed
AnyStep ==
    /\ run # IdleRun
    /\ \E p \in pending :
          /\ acc' = Body(acc, run, rate, p[2], p[1])
          /\ invoked' = AddCount(invoked, Invocation(acc, p[2], p[1]), 1)
          /\ pending' = pending \ {p}
    /\ UNCHANGED <<sim, rate, run, loop_trial, loop_task_id, results, bftVars, agVars, moreVars>>

\* the loops are over: build and return the SimulationResult
Return(anyOrder) ==
    /\ run # IdleRun
    /\ IF anyOrder THEN pending = {}
       ELSE loop_trial >= sim.trials \/ sim.tasks_per_trial = 0
    /\ results' = [results EXCEPT ![run] = Append(@, SimulationResult(acc))]
    /\ run' = IdleRun
    /\ UNCHANGED <<sim, rate, loop_trial, loop_task_id, pending, acc, invoked, bftVars,
                   agVars, moreVars>>

InitSimWith(configs) ==
    /\ \E c \in configs : sim = c.sim /\ rate = c.rate
    /\ run = IdleRun
    /\ loop_trial = 0
    /\ loop_task_id = 0
    /\ pending = {}
    /\ acc = EmptyAcc
    /\ invoked = NoInvocation
    /\ results = [k \in RunKeys |-> <<>>]
    /\ IdleBft
    /\ IdleAgents
    /\ IdleMore

\* simulate_* calls, each made up to MaxRuns times with the same arguments
StartRun == \E key \in RunKeys : Start(key, FALSE, MaxRuns)
ReturnRun == Return(FALSE)
NextSim == StartRun \/ LoopStep \/ ReturnRun
SpecSim == InitSimWith(SmallConfigs) /\ [][NextSim]_vars

\* the same calls with the (trial, task) pairs executed in any order
StartAnyOrder == \E key \in RunKeys : Start(key, TRUE, 1)
ReturnAnyOrder == Return(TRUE)
NextAnyOrder == StartAnyOrder \/ AnyStep \/ ReturnAnyOrder
SpecAnyOrder == InitSimWith(SmallConfigs) /\ [][NextAnyOrder]_vars

\* one call each of simulate_single_agent, simulate_bft_system(3) and (5),
\* as main and the reliability tests make them, to compare the results
StartCompare == \E key \in RunKeys : Start(key, FALSE, 1)
NextCompare == StartCompare \/ LoopStep \/ ReturnRun
SpecCompare == InitSimWith(SmallConfigs \cup {WrapConfig}) /\ [][NextCompare]_vars

(***************************************************************************)
(* Claims about MonteCarloSimulation                                       *)
(***************************************************************************)

\* C8: two runs of simulate_single_agent (of simulate_bft_system) with the same
\* trials, tasks_per_trial, agent count and failure rate return the same
\* SimulationResult.
C8_RunsReproducible ==
    \A key \in RunKeys :
        \A i, j \in DOMAIN results[key] : results[key][i] = results[key][j]

\* C8 witness: simulate_bft_system(3, 0.005) has returned twice, with both
\* successes and failures among its four tasks.
C8_Witness ==
    /\ Len(results[BftKey(3)]) = 2
    /\ results[BftKey(3)][2].total_tasks = 4
    /\ results[BftKey(3)][2].successes \in 1..3

\* C9: whatever the order in which the (trial, task) pairs are executed and
\* accumulated, the returned SimulationResult is the sequential loop's.
C9_OrderIndependent ==
    \A key \in RunKeys :
        \A i \in DOMAIN results[key] : results[key][i] = SequentialResult(key)

\* C9 witness: simulate_bft_system(3, 0.005) has returned a result with both
\* successes and failures, and a simulate_single_agent run is executing its
\* pairs out of source order: only the first pair (0, 0) is still to come.
C9_Witness ==
    /\ results[BftKey(3)] # <<>>
    /\ results[BftKey(3)][1].total_tasks = 4
    /\ results[BftKey(3)][1].successes \in 1..3
    /\ run = SingleKey
    /\ pending = {<<0, 0>>}
    /\ acc.total_tasks = 3

\* C10: successes(single agent) <= successes(3 agents) <= successes(5 agents)
\* for the same trials, tasks_per_trial and failure rate.
C10_MoreAgentsNeverFewerSuccesses ==
    (\A key \in RunKeys : results[key] # <<>>) =>
        /\ results[SingleKey][1].successes <= results[BftKey(3)][1].successes
        /\ results[BftKey(3)][1].successes <= results[BftKey(5)][1].successes

(***************************************************************************)
(* dual_model_consensus.rs: two simulated models and their consensus.      *)
(* A String is modelled as the sequence of the pieces it is built from, so *)
(* that format! is concatenation and == is equality of the built text.     *)
(***************************************************************************)
\* largest Task.id handed to dual_model_consensus
MaxDualTask == 9
\* largest seed handed to dual_model_consensus (42 is the seed main uses)
MaxDualSeed == 3

DualTaskIds == 0..MaxDualTask
DualSeeds == (0..MaxDualSeed) \cup {42}

\* `% 100` of both model hashes
DualHashMod == 100
\* `hash < 77`: the model answers with the expected output
CorrectBelow == 77
\* `hash < 92`: the model hallucinates; from 92 on it fails
WrongBelow == 92

\* the literals of the three functions
ErrorA == <<"ERROR: Failed to generate output">>
ErrorB == <<"ERROR: Validation failed">>
ConsensusFailure == <<"CONSENSUS_FAILURE: Disagreement detected">>

\* Task.expected_output of the tasks tried: an ordinary text, the text of
\* model A's error literal and the text of the consensus failure literal
ExpectedOutputs == {<<"fn function() { }">>, ErrorA, ConsensusFailure}

DualTasks == {[id |-> i, expected_output |-> e] : i \in DualTaskIds, e \in ExpectedOutputs}

\* model_a_generate
ModelAGenerate(task, seed) ==
    LET hash == (task.id * 31 + seed * 17) % DualHashMod
    IN  [task_id |-> task.id,
         output |-> IF hash < CorrectBelow THEN task.expected_output
                    ELSE IF hash < WrongBelow
                         THEN <<"HALLUCINATION: ">> \o task.expected_output \o <<"_wrong">>
                         ELSE ErrorA]

\* model_b_validate
ModelBValidate(task, candidate, seed) ==
    LET hash == (task.id * 43 + seed * 29) % DualHashMod
    IN  [task_id |-> task.id,
         output |-> IF hash < CorrectBelow
                    THEN (IF candidate = task.expected_output THEN candidate
                          ELSE task.expected_output)
                    ELSE IF hash < WrongBelow
                         THEN <<"HALLUCINATION_B: ">> \o task.expected_output
                                  \o <<"_alt_wrong">>
                         ELSE ErrorB]

\* a fallback that trusts model A
FallbackTrustA(task, a, b) == a.output

\* the fallback of dual_model_consensus when the two outputs differ, as the
\* code has it: the output that equals the expected output, if any
FallbackByExpected(task, a, b) ==
    IF a.output = task.expected_output THEN a.output
    ELSE IF b.output = task.expected_output THEN b.output
    ELSE ConsensusFailure

\* dual_model_consensus: the two responses and the response returned
DualModelConsensus(task, seed) ==
    LET response_a == ModelAGenerate(task, seed)
        response_b == ModelBValidate(task, response_a.output, seed)
        final_output == IF response_a.output = response_b.output
                        THEN response_a.output
                        ELSE FallbackByExpected(task, response_a, response_b)
    IN  [response_a |-> response_a, response_b |-> response_b,
         ret |-> [task_id |-> task.id, output |-> final_output]]

CallDualModelConsensus(task, seed) ==
    /\ dual' = [op |-> "dual_model_consensus", task |-> task, seed |-> seed]
                  @@ DualModelConsensus(task, seed)
    /\ UNCHANGED <<bftVars, agVars, simVars, stat, llm, wf, sched, cache, tally, calls, rel>>

DoDualModelConsensus ==
    \E task \in DualTasks, seed \in DualSeeds : CallDualModelConsensus(task, seed)

InitDual == IdleBft /\ IdleAgents /\ IdleSim /\ IdleMore

SpecDual == InitDual /\ [][DoDualModelConsensus]_vars

\* C11: dual_model_consensus returns an output other than the consensus
\* failure only if the outputs of model A and model B are equal; when they
\* differ it returns the consensus failure and does not pick the output that
\* matches the task's expected output.
C11_AcceptsOnlyOnAgreement ==
    dual.op = "dual_model_consensus" =>
        (dual.ret.output # ConsensusFailure
            => dual.response_a.output = dual.response_b.output)

(***************************************************************************)
(* The rate and comparison arithmetic of the ch04 examples.  An f64 is     *)
(* modelled as an exact fraction or one of the special values a division   *)
(* of f64 produces; a usize that left its range is modelled by the two     *)
(* outcomes of the two build profiles.                                     *)
(***************************************************************************)
\* longest Vec<bool> handed to calculate_stats
MaxBools == 3
\* longest task list handed to evaluate_reliability
MaxEvalTasks == 3

NaN == [f64 |-> "NaN"]
Infinity == [f64 |-> "inf"]
NegInfinity == [f64 |-> "-inf"]
Finite(num, den) == [f64 |-> "finite", num |-> num, den |-> den]
\* a fraction whose numerator is a wrapped usize, of the order of 2^64
Huge == [f64 |-> "huge"]
\* `attempt to subtract with overflow`: the panic of a build with overflow checks
Panic == [f64 |-> "panic"]

\* the outcomes of a usize expression: a value, the overflow panic, or
\* 2^64 - below, the value a build without overflow checks computes
Usize(n) == [usize |-> "value", val |-> n]
UsizePanic == [usize |-> "panic"]
UsizeWrapped(k) == [usize |-> "wrapped", below |-> k]

\* a - b on usize
UsizeSub(a, b) == IF a >= b THEN {Usize(a - b)} ELSE {UsizePanic, UsizeWrapped(b - a)}

\* n as f64 / d as f64, for integral n and usize d: IEEE 754 gives NaN for 0/0
\* and an infinity for a non-zero numerator over 0
F64Div(n, d) ==
    IF d = 0 THEN (IF n = 0 THEN NaN ELSE IF n > 0 THEN Infinity ELSE NegInfinity)
    ELSE Finite(n, d)

\* the same division when the numerator is the outcome of a usize subtraction
F64DivOutcome(n, d) ==
    IF n.usize = "panic" THEN Panic
    ELSE IF n.usize = "wrapped" THEN (IF d = 0 THEN Infinity ELSE Huge)
    ELSE F64Div(n.val, d)

\* x * 100.0
F64Times100(x) ==
    IF x.f64 = "finite" THEN Finite(x.num * 100, x.den) ELSE x

\* 1.0 - x
F64OneMinus(x) ==
    IF x.f64 = "finite" THEN Finite(x.den - x.num, x.den)
    ELSE IF x = Infinity THEN NegInfinity
    ELSE x

\* x / y on two rates, each a fraction with non-negative numerator or NaN
F64Quot(x, y) ==
    IF x.f64 # "finite" \/ y.f64 # "finite" THEN NaN
    ELSE IF y.num = 0 THEN (IF x.num = 0 THEN NaN ELSE Infinity)
    ELSE Finite(x.num * y.den, x.den * y.num)

\* SimulationResult::success_rate
SuccessRate(result) == F64Div(result.successes, result.total_tasks)

\* SimulationResult::failure_rate
FailureRate(result) == F64OneMinus(SuccessRate(result))

RECURSIVE SumValues(_)
SumValues(map) ==
    IF DOMAIN map = {} THEN 0
    ELSE LET m == CHOOSE x \in DOMAIN map : TRUE
         IN  map[m] + SumValues([x \in DOMAIN map \ {m} |-> map[x]])

\* SimulationResult::total_failures
TotalFailures(result) == SumValues(result.failures)

\* calculate_stats of dual_model.rs: (correct, total, error_rate)
CalculateStats(bools) ==
    LET total == Len(bools)
        correct == Cardinality({i \in DOMAIN bools : bools[i]})
    IN  [correct |-> correct, total |-> total,
         error_rate |-> F64Times100(F64Div(total - correct, total))]

\* the state after main of byzantine_simulation.rs made its three simulate_*
\* calls on one MonteCarloSimulation
InitStats ==
    /\ \E c \in SmallConfigs : sim = c.sim /\ rate = c.rate
    /\ run = IdleRun
    /\ loop_trial = 0
    /\ loop_task_id = 0
    /\ pending = {}
    /\ acc = EmptyAcc
    /\ invoked = NoInvocation
    /\ results = [k \in RunKeys |-> <<SequentialResult(k)>>]
    /\ IdleBft
    /\ IdleAgents
    /\ IdleMore

statFrame == <<bftVars, agVars, simVars, dual, llm, wf, sched, cache, tally, calls, rel>>

CallSuccessRate(key) ==
    /\ stat' = [op |-> "success_rate", result |-> results[key][1],
                ret |-> SuccessRate(results[key][1])]
    /\ UNCHANGED statFrame

CallFailureRate(key) ==
    /\ stat' = [op |-> "failure_rate", result |-> results[key][1],
                ret |-> FailureRate(results[key][1])]
    /\ UNCHANGED statFrame

CallCalculateStats(bools) ==
    /\ stat' = [op |-> "calculate_stats", results |-> bools,
                ret |-> CalculateStats(bools).error_rate]
    /\ UNCHANGED statFrame

DoSuccessRate == \E key \in RunKeys : CallSuccessRate(key)
DoFailureRate == \E key \in RunKeys : CallFailureRate(key)
DoCalculateStats == \E bools \in SeqUpTo(BOOLEAN, MaxBools) : CallCalculateStats(bools)

\* C12: a rate computed over zero tasks (trials == 0 or tasks_per_trial == 0,
\* or an empty result list) is an explicit undefined value: the computation
\* does not produce NaN, divide by zero or panic.
C12_ZeroTasksRateDefined ==
    /\ (stat.op \in {"success_rate", "failure_rate"} /\ stat.result.total_tasks = 0)
          => stat.ret \notin {NaN, Infinity, Panic}
    /\ (stat.op = "calculate_stats" /\ stat.results = <<>>)
          => stat.ret \notin {NaN, Infinity, Panic}

\* the statistic `failure_reduction` of main in byzantine_simulation.rs:
\* every value a build can compute for it
FailureReduction(single_result, bft_5_result) ==
    {F64Times100(F64DivOutcome(n, TotalFailures(single_result))) :
        n \in UsizeSub(TotalFailures(single_result), TotalFailures(bft_5_result))}

\* the tasks main of dual_model_consensus.rs generates, for (0..n)
MainTasks(n) ==
    [i \in 1..n |-> [id |-> i - 1,
                     expected_output |-> <<"fn function_", ToString(i - 1), "() { }">>]]

\* seeds handed to evaluate_reliability; main uses 42
EvalSeeds == {0, 5, 42}

\* the two strategies main hands to evaluate_reliability
StrategyOutput(strategy, task, seed) ==
    IF strategy = "model_a_generate" THEN ModelAGenerate(task, seed).output
    ELSE DualModelConsensus(task, seed).ret.output

\* evaluate_reliability: (successes, total)
EvaluateReliability(tasks, strategy, seed) ==
    [successes |-> Cardinality({i \in DOMAIN tasks :
                        StrategyOutput(strategy, tasks[i], seed) = tasks[i].expected_output}),
     total |-> Len(tasks)]

\* the statistics main of dual_model_consensus.rs prints for n tasks
DualMainStats(n, seed) ==
    LET a == EvaluateReliability(MainTasks(n), "model_a_generate", seed)
        d == EvaluateReliability(MainTasks(n), "dual_model_consensus", seed)
        rate_a == F64Times100(F64Div(a.successes, a.total))
        rate_dual == F64Times100(F64Div(d.successes, d.total))
    IN  [baseline_failures |-> a.total - a.successes,
         rate_a |-> rate_a,
         failure_reduction |->
             F64Times100(F64Div((a.total - a.successes) - (d.total - d.successes),
                                a.total - a.successes)),
         reliability_gain |-> F64Quot(rate_dual, rate_a)]

CallFailureReduction ==
    /\ \E v \in FailureReduction(results[SingleKey][1], results[BftKey(5)][1]) :
          stat' = [op |-> "failure_reduction",
                   baseline_failures |-> TotalFailures(results[SingleKey][1]),
                   ret |-> v]
    /\ UNCHANGED statFrame

CallDualFailureReduction(n, seed) ==
    /\ stat' = [op |-> "dual_failure_reduction",
                baseline_failures |-> DualMainStats(n, seed).baseline_failures,
                ret |-> DualMainStats(n, seed).failure_reduction]
    /\ UNCHANGED statFrame

CallReliabilityGain(n, seed) ==
    /\ stat' = [op |-> "reliability_gain",
                baseline_rate |-> DualMainStats(n, seed).rate_a,
                ret |-> DualMainStats(n, seed).reliability_gain]
    /\ UNCHANGED statFrame

DoDualFailureReduction ==
    \E n \in 0..MaxEvalTasks, seed \in EvalSeeds : CallDualFailureReduction(n, seed)

DoReliabilityGain ==
    \E n \in 0..MaxEvalTasks, seed \in EvalSeeds : CallReliabilityGain(n, seed)

NextStats ==
    \/ DoSuccessRate
    \/ DoFailureRate
    \/ DoCalculateStats
    \/ CallFailureReduction
    \/ DoDualFailureReduction
    \/ DoReliabilityGain

SpecStats == InitStats /\ [][NextStats]_vars

MaxBuilt == 2

\* failure rates inside [0, 1] and outside of it: -0.0001 and 1.0001
AnyRates == Rates \cup {-1, HashMod + 1}

\* let agent = Agent::new(id, failure_rate), kept in scope
CallAgentNew(id, failure_rate) ==
    /\ Len(agents) < MaxBuilt
    /\ agents' = Append(agents, AgentNew(id, failure_rate))
    /\ UNCHANGED <<acall, first, ncalls, bftVars, simVars, moreVars>>

DoAgentNew ==
    \E id \in 0..MaxAgentId, failure_rate \in AnyRates : CallAgentNew(id, failure_rate)

InitNewAgent == IdleBft /\ IdleAgents /\ IdleSim /\ IdleMore

SpecNewAgent == InitNewAgent /\ [][DoAgentNew]_vars

\* C13: no Agent exists whose failure_rate is below 0 or above 1: Agent::new
\* fails for such a rate and neither accepts nor clamps it.
C13_FailureRateInRange ==
    \A i \in DOMAIN agents :
        agents[i].failure_rate >= 0 /\ agents[i].failure_rate <= HashMod

(***************************************************************************)
(* workflow_orchestration.rs: Workflow.  A task id is modelled as a number *)
(* that stands for a one-letter String: 1 for "a", 2 for "b", 3 for "c";   *)
(* the order of the numbers is the order of the Strings that sort() uses.  *)
(***************************************************************************)
\* most entries of Task.dependencies over all tasks of a workflow
MaxEdges == 3

WfNames == {1, 2, 3}

\* Task::new(id) followed by depends_on(dep) for each dep of deps
TaskNew(id, deps) == [id |-> id, dependencies |-> deps, status |-> "Pending"]

\* the Result<(), String> of compute_execution_order
Ok == [ok |-> TRUE, err |-> "", dep |-> 0]
ErrUnknown(dep) == [ok |-> FALSE, err |-> "Unknown dependency: ", dep |-> dep]
ErrCycle == [ok |-> FALSE, err |-> "Cycle detected in workflow", dep |-> 0]

\* Workflow::new, with no call made on it yet; `added` keeps the ids in the
\* order of the add_task calls
WorkflowNew ==
    [op |-> "new", tasks |-> [id \in {} |-> TaskNew(id, <<>>)],
     execution_order |-> <<>>, ret |-> Ok, executed |-> <<>>, added |-> <<>>]

RECURSIVE SumLens(_)
SumLens(tasks) ==
    IF DOMAIN tasks = {} THEN 0
    ELSE LET id == CHOOSE x \in DOMAIN tasks : TRUE
         IN  Len(tasks[id].dependencies)
                + SumLens([x \in DOMAIN tasks \ {id} |-> tasks[x]])

\* self.tasks.insert(task.id.clone(), task)
Insert(tasks, task) ==
    [id \in DOMAIN tasks \cup {task.id} |-> IF id = task.id THEN task ELSE tasks[id]]

\* a Vec<String> left in the order it was collected in
Unsorted(v) == v

\* x put before the first element of the sorted v that is not below it
RECURSIVE Placed(_, _)
Placed(v, x) ==
    IF v = <<>> THEN <<x>>
    ELSE IF x <= Head(v) THEN <<x>> \o v
    ELSE <<Head(v)>> \o Placed(Tail(v), x)

\* v.sort() and deps.sort()
RECURSIVE Sort(_)
Sort(v) == IF v = <<>> THEN <<>> ELSE Placed(Sort(Tail(v)), Head(v))

RECURSIVE Copies(_, _)
Copies(id, k) == IF k = 0 THEN <<>> ELSE <<id>> \o Copies(id, k - 1)

\* how often dep is listed in the dependencies of task id
Listed(tasks, id, dep) ==
    Cardinality({i \in DOMAIN tasks[id].dependencies : tasks[id].dependencies[i] = dep})

\* dependents[dep] after the counting loop has visited the tasks in the
\* order ids: every task that lists dep, once per listing
RECURSIVE Dependents(_, _, _)
Dependents(tasks, dep, ids) ==
    IF ids = <<>> THEN <<>>
    ELSE Copies(Head(ids), Listed(tasks, Head(ids), dep))
            \o Dependents(tasks, dep, Tail(ids))

\* !self.tasks.contains_key(dep) for some dependency of task id
HasUnknown(tasks, id) ==
    \E i \in DOMAIN tasks[id].dependencies : tasks[id].dependencies[i] \notin DOMAIN tasks

\* the first dependency of task id that is not a key of self.tasks
FirstUnknown(tasks, id) ==
    LET deps == tasks[id].dependencies
        i == CHOOSE j \in DOMAIN deps :
                /\ deps[j] \notin DOMAIN tasks
                /\ \A k \in 1..(j - 1) : deps[k] \in DOMAIN tasks
    IN  deps[i]

\* in_degree after the counting loop
InDegrees(tasks) == [id \in DOMAIN tasks |-> Len(tasks[id].dependencies)]

\* the for loop over the sorted dependents of the task just popped
RECURSIVE Relax(_, _)
Relax(deps, st) ==
    IF deps = <<>> THEN st
    ELSE LET dep_id == Head(deps)
             deg == st.in_degree[dep_id] - 1
         IN  Relax(Tail(deps),
                   [in_degree |-> [st.in_degree EXCEPT ![dep_id] = deg],
                    queue |-> IF deg = 0 THEN Append(st.queue, dep_id) ELSE st.queue])

\* while let Some(id) = queue.pop_front(); keys is the order in which the
\* counting loop visited self.tasks
RECURSIVE Drain(_, _, _, _)
Drain(tasks, keys, st, order) ==
    IF st.queue = <<>> THEN order
    ELSE LET id == Head(st.queue)
         IN  Drain(tasks, keys,
                   Relax(Sort(Dependents(tasks, id, keys)),
                         [st EXCEPT !.queue = Tail(@)]),
                   Append(order, id))

\* an order that is accepted although tasks may be missing from it
CoversAtMost(order, tasks) == Len(order) <= Cardinality(DOMAIN tasks)

\* the negation of `order.len() != self.tasks.len()`
Covers(order, tasks) == Len(order) = Cardinality(DOMAIN tasks)

\* self.execution_order assigned before the cycle test
OrderAssignedFirst(execution_order, order) == order

\* self.execution_order when Err is returned: the assignment of line 120 is
\* not reached
OrderAfterErr(execution_order, order) == execution_order

\* compute_execution_order when `for (id, task) in &self.tasks` visits the
\* tasks in the order keys and in_degree.iter() visits them in the order degs:
\* the execution_order it leaves and the Result it returns
ComputeWith(w, keys, degs) ==
    IF \E id \in DOMAIN w.tasks : HasUnknown(w.tasks, id)
    THEN LET i == CHOOSE j \in DOMAIN keys :
                     /\ HasUnknown(w.tasks, keys[j])
                     /\ \A k \in 1..(j - 1) : ~HasUnknown(w.tasks, keys[k])
         IN  [execution_order |-> w.execution_order,
              ret |-> ErrUnknown(FirstUnknown(w.tasks, keys[i]))]
    ELSE LET in_degree == InDegrees(w.tasks)
             initial == Sort(SelectSeq(degs, LAMBDA id : in_degree[id] = 0))
             order == Drain(w.tasks, keys,
                            [in_degree |-> in_degree, queue |-> initial], <<>>)
         IN  IF ~Covers(order, w.tasks)
             THEN [execution_order |-> OrderAfterErr(w.execution_order, order),
                   ret |-> ErrCycle]
             ELSE [execution_order |-> order, ret |-> Ok]

\* compute_execution_order: what it can leave and return, over the orders
\* in which the two HashMaps may be iterated
ComputeExecutionOrder(w) ==
    {ComputeWith(w, keys, degs) : keys, degs \in IterationOrders(DOMAIN w.tasks)}

\* Workflow::execute: the tasks after the loop and the Vec returned
WorkflowExecute(w) ==
    LET ran == {w.execution_order[i] : i \in DOMAIN w.execution_order} \cap DOMAIN w.tasks
    IN  [tasks |-> [id \in DOMAIN w.tasks |->
                       IF id \in ran THEN [w.tasks[id] EXCEPT !.status = "Completed"]
                       ELSE w.tasks[id]],
         executed |-> SelectSeq(w.execution_order, LAMBDA id : id \in DOMAIN w.tasks)]

wfFrame == <<bftVars, agVars, simVars, dual, stat, llm, sched, cache, tally, calls, rel>>

\* workflow.add_task(Task::new(id).depends_on(..)); every id is added once,
\* as all callers do.  The values returned by earlier calls are gone.
AddTask(id, deps) ==
    /\ id \notin DOMAIN wf.tasks
    /\ SumLens(Insert(wf.tasks, TaskNew(id, deps))) <= MaxEdges
    /\ wf' = [wf EXCEPT !.op = "add_task", !.tasks = Insert(wf.tasks, TaskNew(id, deps)),
                        !.ret = Ok, !.executed = <<>>, !.added = Append(@, id)]
    /\ UNCHANGED wfFrame

CallComputeExecutionOrder ==
    /\ \E r \in ComputeExecutionOrder(wf) :
          wf' = [wf EXCEPT !.op = "compute_execution_order",
                           !.execution_order = r.execution_order, !.ret = r.ret,
                           !.executed = <<>>]
    /\ UNCHANGED wfFrame

CallWorkflowExecute ==
    /\ wf' = [wf EXCEPT !.op = "execute", !.tasks = WorkflowExecute(wf).tasks,
                        !.ret = Ok, !.executed = WorkflowExecute(wf).executed]
    /\ UNCHANGED wfFrame

DoAddTask == \E id \in WfNames, deps \in SeqUpTo(WfNames, MaxEdges) : AddTask(id, deps)

InitWorkflow ==
    /\ IdleBft /\ IdleAgents /\ IdleSim
    /\ dual = Unused /\ stat = Unused /\ llm = Unused /\ sched = Unused /\ cache = Unused /\ tally = Unused
    /\ calls = Unused
    /\ rel = Unused
    /\ wf = WorkflowNew

NextWorkflow == DoAddTask \/ CallComputeExecutionOrder \/ CallWorkflowExecute

SpecWorkflow == InitWorkflow /\ [][NextWorkflow]_vars

\* the position of id in a sequence that holds it
PositionIn(order, id) == CHOOSE i \in DOMAIN order : order[i] = id

\* the pairs (task, dependency) of a task map
DependsOn(tasks) ==
    UNION {{<<id, tasks[id].dependencies[i]>> : i \in DOMAIN tasks[id].dependencies} :
              id \in DOMAIN tasks}

\* the pairs joined by a chain of at most 2^n pairs of R
RECURSIVE Chains(_, _)
Chains(R, n) ==
    IF n = 0 THEN R
    ELSE Chains(R \cup {<<p[1][1], p[2][2]>> : p \in {q \in R \X R : q[1][2] = q[2][1]}},
                n - 1)

\* some task depends on itself, directly or through other tasks
HasCycle(tasks) ==
    \E id \in DOMAIN tasks : <<id, id>> \in Chains(DependsOn(tasks), Cardinality(WfNames))

\* C15: when compute_execution_order returns Ok, execution_order holds every
\* task of the workflow exactly once and every task comes after all of its
\* dependencies.
C15_OkOrderIsTopological ==
    (wf.op = "compute_execution_order" /\ wf.ret.ok) =>
        /\ Len(wf.execution_order) = Cardinality(DOMAIN wf.tasks)
        /\ {wf.execution_order[i] : i \in DOMAIN wf.execution_order} = DOMAIN wf.tasks
        /\ \A p \in DependsOn(wf.tasks) :
              PositionIn(wf.execution_order, p[2]) < PositionIn(wf.execution_order, p[1])

\* an Ok order of three tasks, the last of which joins the two before it
C15_Witness ==
    /\ wf.op = "compute_execution_order" /\ wf.ret.ok
    /\ DOMAIN wf.tasks = WfNames
    /\ wf.tasks[3].dependencies = <<2, 1>>
    /\ wf.tasks[2].dependencies = <<1>>
    /\ wf.execution_order = <<1, 2, 3>>

\* C16: compute_execution_order returns Err exactly when some task depends on
\* itself through a cycle or lists a dependency that was never added, and a
\* call that returns Err leaves execution_order and every task unchanged.
C16_ErrOnCycleOrUnknown ==
    /\ [](wf.op = "compute_execution_order" =>
            (wf.ret.ok <=> ~(HasCycle(wf.tasks)
                              \/ \E id \in DOMAIN wf.tasks : HasUnknown(wf.tasks, id))))
    /\ [][(wf'.op = "compute_execution_order" /\ ~wf'.ret.ok) =>
            (wf'.execution_order = wf.execution_order /\ wf'.tasks = wf.tasks)]_vars

\* a cycle reported on a workflow that was ordered and executed before
C16_Witness ==
    /\ wf.op = "compute_execution_order" /\ wf.ret = ErrCycle
    /\ wf.execution_order = <<1>>
    /\ wf.tasks[1].status = "Completed"
    /\ HasCycle(wf.tasks)

(***************************************************************************)
(* work_stealing.rs: Scheduler.  A WorkUnit is modelled by its id: its     *)
(* priority and cost are never read by distribute or execute.              *)
(***************************************************************************)
\* most workers of a Scheduler
MaxWorkers == 2
\* most work units handed to distribute over the life of a Scheduler
MaxUnits == 3
\* largest WorkUnit.id
MaxUnitId == 2
\* most calls of distribute and execute made on a Scheduler
MaxSchedCalls == 3

\* Worker::new
WorkerNew(id) == [id |-> id, queue |-> <<>>, processed |-> <<>>]

\* Scheduler::new(num_workers), with no call made on it yet
SchedulerNew(num_workers) ==
    [op |-> "new", workers |-> [i \in 1..num_workers |-> WorkerNew(i - 1)],
     pc |-> "idle", panicked |-> FALSE,
     log |-> <<>>, units |-> <<>>, entry |-> <<>>]

\* the loop of distribute: unit i goes to worker i % self.workers.len()
RECURSIVE DistributeFrom(_, _, _)
DistributeFrom(workers, work_units, i) ==
    IF i >= Len(work_units) THEN workers
    ELSE LET worker_idx == i % Len(workers)
         IN  DistributeFrom(
                 [workers EXCEPT ![worker_idx + 1].queue = Append(@, work_units[i + 1])],
                 work_units, i + 1)

\* Worker::steal: pop_back
PopBack(queue) == [work |-> queue[Len(queue)], rest |-> SubSeq(queue, 1, Len(queue) - 1)]

\* Worker::pop: pop_front
Pop(queue) == [work |-> Head(queue), rest |-> Tail(queue)]

\* if let Some(work) = worker.pop() { worker.process(work); }
PopAndProcess(worker) ==
    IF worker.queue = <<>> THEN worker
    ELSE [worker EXCEPT !.queue = Pop(worker.queue).rest,
                        !.processed = Append(@, Pop(worker.queue).work)]

RECURSIVE TotalProcessedFrom(_, _)
TotalProcessedFrom(workers, w) ==
    IF w > Len(workers) THEN 0
    ELSE Len(workers[w].processed) + TotalProcessedFrom(workers, w + 1)

\* Scheduler::total_processed
TotalProcessed(workers) == TotalProcessedFrom(workers, 1)

RECURSIVE TotalQueuedFrom(_, _)
TotalQueuedFrom(workers, w) ==
    IF w > Len(workers) THEN 0
    ELSE Len(workers[w].queue) + TotalQueuedFrom(workers, w + 1)

\* the units waiting in the queues of all workers
TotalQueued(workers) == TotalQueuedFrom(workers, 1)

schedFrame == <<bftVars, agVars, simVars, dual, stat, llm, wf, cache, tally, calls, rel>>

\* Scheduler::distribute; with no worker, i % 0 panics on the first unit
Distribute(work_units) ==
    /\ sched.pc = "idle" /\ ~sched.panicked
    /\ Len(sched.log) < MaxSchedCalls
    /\ TotalQueued(sched.workers) + TotalProcessed(sched.workers) + Len(work_units)
          <= MaxUnits
    /\ IF Len(sched.workers) = 0 /\ work_units # <<>>
       THEN sched' = [sched EXCEPT !.op = "distribute", !.panicked = TRUE]
       ELSE sched' = [sched EXCEPT !.op = "distribute",
                         !.workers = DistributeFrom(sched.workers, work_units, 0),
                         !.log = Append(@, "distribute"), !.units = work_units]
    /\ UNCHANGED schedFrame

\* entry of Scheduler::execute
ExecuteStart ==
    /\ sched.pc = "idle" /\ ~sched.panicked
    /\ Len(sched.log) < MaxSchedCalls
    /\ sched' = [sched EXCEPT !.pc = "execute", !.entry = sched.workers]
    /\ UNCHANGED schedFrame

\* one pass of `loop` in which some worker had work
ExecuteRound ==
    /\ sched.pc = "execute"
    /\ \E w \in DOMAIN sched.workers : sched.workers[w].queue # <<>>
    /\ sched' = [sched EXCEPT !.workers =
                    [w \in DOMAIN sched.workers |-> PopAndProcess(sched.workers[w])]]
    /\ UNCHANGED schedFrame

\* the pass of `loop` in which no worker had work: break and return
ExecuteReturn ==
    /\ sched.pc = "execute"
    /\ \A w \in DOMAIN sched.workers : sched.workers[w].queue = <<>>
    /\ sched' = [sched EXCEPT !.op = "execute", !.pc = "idle",
                              !.log = Append(@, "execute")]
    /\ UNCHANGED schedFrame

DoDistribute == \E work_units \in SeqUpTo(0..MaxUnitId, MaxUnits) : Distribute(work_units)

InitSched ==
    /\ IdleBft /\ IdleAgents /\ IdleSim
    /\ dual = Unused /\ stat = Unused /\ llm = Unused /\ wf = Unused /\ cache = Unused /\ tally = Unused
    /\ calls = Unused
    /\ rel = Unused
    /\ \E num_workers \in 0..MaxWorkers : sched = SchedulerNew(num_workers)

NextSched == DoDistribute \/ ExecuteStart \/ ExecuteRound \/ ExecuteReturn

\* execute is a sequential loop: once entered, its passes are taken
SpecSched ==
    InitSched /\ [][NextSched]_vars /\ WF_vars(ExecuteRound) /\ WF_vars(ExecuteReturn)

\* execute has returned, and the calls made on the new Scheduler were
\* distribute(units) and then execute()
DistributedThenExecuted ==
    sched.op = "execute" /\ sched.pc = "idle" /\ sched.log = <<"distribute", "execute">>

\* no id is found at two places of the processed lists
NoIdTwice(workers) ==
    \A w \in DOMAIN workers, v \in DOMAIN workers :
        \A i \in DOMAIN workers[w].processed, j \in DOMAIN workers[v].processed :
            <<w, i>> # <<v, j>> => workers[w].processed[i] # workers[v].processed[j]

\* every worker has an empty queue and has processed, after what it had
\* processed before, the units of its queue from front to back
QueuesDrainedInOrder ==
    \A w \in DOMAIN sched.workers :
        /\ sched.workers[w].queue = <<>>
        /\ sched.workers[w].processed
              = sched.entry[w].processed \o sched.entry[w].queue

DistinctIds(work_units) ==
    \A i \in DOMAIN work_units, j \in DOMAIN work_units :
        i # j => work_units[i] # work_units[j]

\* C17 as stated: after distribute(units) and execute() every queue is empty,
\* total_processed() is the number of units, no unit id is found twice in the
\* processed lists, and every worker processed its queue in FIFO order.
C17_EveryUnitOnce ==
    DistributedThenExecuted =>
        /\ QueuesDrainedInOrder
        /\ TotalProcessed(sched.workers) = Len(sched.units)
        /\ NoIdTwice(sched.workers)

\* C17, amended: execute terminates; when it returns every queue is empty and
\* every worker has processed its queue in FIFO order; after distribute(units)
\* and execute() on a new Scheduler total_processed() is the number of units,
\* and no id is found twice in the processed lists if no two units share an id.
C17_DistinctUnitsOnce ==
    /\ []((sched.op = "execute" /\ sched.pc = "idle") => QueuesDrainedInOrder)
    /\ [](DistributedThenExecuted =>
            /\ TotalProcessed(sched.workers) = Len(sched.units)
            /\ (DistinctIds(sched.units) => NoIdTwice(sched.workers)))
    /\ (sched.pc = "execute" ~> sched.pc = "idle")

\* three units with ids 0, 1, 2 on two workers, distributed and executed
C17_Witness ==
    /\ DistributedThenExecuted
    /\ sched.units = <<0, 1, 2>>
    /\ Len(sched.workers) = 2
    /\ sched.workers[1].processed = <<0, 2>>
    /\ sched.workers[2].processed = <<1>>

(***************************************************************************)
(* quality_gates.rs: MetricsCache.                                         *)
(***************************************************************************)
\* most calls of MetricsCache::set
MaxSets == 3

\* gate names: two of QUALITY_GATES
Gates == {"lint", "test-fast"}
\* source hashes, as the tests use them
Hashes == {"abc123", "def456"}

\* CachedMetric, with the duration and timestamp of the tests
CachedMetric(source_hash, passed) ==
    [source_hash |-> source_hash, duration_ms |-> 100, timestamp |-> 123456,
     passed |-> passed]

NoMetric == [some |-> FALSE]
SomeMetric(metric) == [some |-> TRUE, val |-> metric]

\* MetricsCache::new, with no call made on it yet
MetricsCacheNew ==
    [op |-> "new", cache |-> [g \in {} |-> CachedMetric("", FALSE)], sets |-> <<>>,
     gate_name |-> "", current_hash |-> "", ret |-> NoMetric]

\* a comparison that takes every hash for the current one
AnyHash(source_hash, current_hash) == TRUE

\* metric.source_hash == current_hash
SameHash(source_hash, current_hash) == source_hash = current_hash

\* MetricsCache::get
Get(map, gate_name, current_hash) ==
    IF gate_name \notin DOMAIN map THEN NoMetric
    ELSE IF SameHash(map[gate_name].source_hash, current_hash)
         THEN SomeMetric(map[gate_name])
         ELSE NoMetric

\* self.cache.insert(gate_name, metric)
CacheInsert(map, gate_name, metric) ==
    [g \in DOMAIN map \cup {gate_name} |-> IF g = gate_name THEN metric ELSE map[g]]

cacheFrame == <<bftVars, agVars, simVars, dual, stat, llm, wf, sched, tally, calls, rel>>

\* MetricsCache::set; `sets` keeps the calls made
CallSet(gate_name, metric) ==
    /\ Len(cache.sets) < MaxSets
    /\ cache' = [cache EXCEPT !.op = "set",
                    !.cache = CacheInsert(cache.cache, gate_name, metric),
                    !.sets = Append(@, [gate_name |-> gate_name, metric |-> metric]),
                    !.ret = NoMetric]
    /\ UNCHANGED cacheFrame

\* MetricsCache::get takes &self
CallGet(gate_name, current_hash) ==
    /\ cache' = [cache EXCEPT !.op = "get", !.gate_name = gate_name,
                    !.current_hash = current_hash,
                    !.ret = Get(cache.cache, gate_name, current_hash)]
    /\ UNCHANGED cacheFrame

DoSet ==
    \E gate_name \in Gates, source_hash \in Hashes, passed \in BOOLEAN :
        CallSet(gate_name, CachedMetric(source_hash, passed))

DoGet == \E gate_name \in Gates, current_hash \in Hashes : CallGet(gate_name, current_hash)

InitCache ==
    /\ IdleBft /\ IdleAgents /\ IdleSim
    /\ dual = Unused /\ stat = Unused /\ llm = Unused /\ wf = Unused /\ sched = Unused /\ tally = Unused
    /\ calls = Unused
    /\ rel = Unused
    /\ cache = MetricsCacheNew

NextCache == DoSet \/ DoGet

SpecCache == InitCache /\ [][NextCache]_vars

\* the positions of the set calls made for a gate
SetsFor(gate_name) == {i \in DOMAIN cache.sets : cache.sets[i].gate_name = gate_name}

\* the metric of the most recent set call made for a gate that has one
LastSet(gate_name) ==
    cache.sets[CHOOSE i \in SetsFor(gate_name) : \A j \in SetsFor(gate_name) : j <= i].metric

\* C18: get(gate, h) returns a metric only if the most recent set for that
\* gate stored source_hash h, and then it returns that metric; for a gate never
\* set or a different hash it returns None; get does not modify the cache.
C18_GetReturnsLastSetOnMatch ==
    /\ [](cache.op = "get" =>
            IF SetsFor(cache.gate_name) # {}
                  /\ LastSet(cache.gate_name).source_hash = cache.current_hash
            THEN cache.ret = SomeMetric(LastSet(cache.gate_name))
            ELSE cache.ret = NoMetric)
    /\ [][cache'.op = "get" => (cache'.cache = cache.cache /\ cache'.sets = cache.sets)]_vars

\* a miss on the hash of an entry that a later set for the same gate replaced
C18_Witness ==
    /\ cache.op = "get" /\ cache.ret = NoMetric
    /\ cache.gate_name = "lint" /\ cache.current_hash = "abc123"
    /\ Len(cache.sets) = 3
    /\ cache.sets[1] = [gate_name |-> "lint", metric |-> CachedMetric("abc123", TRUE)]
    /\ cache.sets[2].gate_name = "test-fast"
    /\ cache.sets[3] = [gate_name |-> "lint", metric |-> CachedMetric("def456", TRUE)]

(***************************************************************************)
(* dual_model.rs: SimulatedLLM.  The u64 seed is modelled as its 8 bytes,  *)
(* least significant first, so that wrapping_mul and wrapping_add keep the *)
(* width of the code; error_rate is counted in hundredths.                 *)
(***************************************************************************)
\* most calls of generate_code made on one SimulatedLLM
MaxGen == 5
\* largest seed tried besides the seeds of main
MaxLlmSeed == 3

\* the base of a byte and the bytes of a u64
ByteBase == 256
U64Len == 8
\* 1103515245 = 0x41C64E6D and 12345 = 0x3039, least significant byte first
Multiplier == <<109, 78, 198, 65>>
Increment == <<57, 48>>
\* the denominator of error_rate: 0.23 is 23
RateUnit == 100

\* the first k bytes of a number below 2^31
RECURSIVE BytesOf(_, _)
BytesOf(n, k) == IF k = 0 THEN <<>> ELSE <<n % ByteBase>> \o BytesOf(n \div ByteBase, k - 1)

\* the seeds and error rates of the models built in main, and small seeds
LlmSeeds == {12345, 67890, 11111} \cup (0..MaxLlmSeed)
LlmRates == {23, 25, 30}

\* SimulatedLLM::new
SimulatedLLMNew(error_rate, seed) ==
    [op |-> "new", error_rate |-> error_rate, seed |-> BytesOf(seed, U64Len),
     seed0 |-> BytesOf(seed, U64Len), ncalls |-> 0, ret |-> TRUE, first |-> TRUE]

\* byte k of seed * Multiplier + Increment before the carry is taken off
RECURSIVE Column(_, _, _)
Column(seed, k, j) ==
    IF j > Len(Multiplier) THEN (IF k < Len(Increment) THEN Increment[k + 1] ELSE 0)
    ELSE (IF k - (j - 1) >= 0 THEN seed[k - (j - 1) + 1] * Multiplier[j] ELSE 0)
            + Column(seed, k, j + 1)

RECURSIVE WithCarry(_, _)
WithCarry(seed, k) ==
    Column(seed, k, 1) + (IF k = 0 THEN 0 ELSE WithCarry(seed, k - 1) \div ByteBase)

\* self.seed.wrapping_mul(1103515245).wrapping_add(12345): the low 64 bits
Advance(seed) == [i \in 1..U64Len |-> WithCarry(seed, i - 1) % ByteBase]

\* the carry out of byte k of seed * RateUnit
RECURSIVE ScaledCarry(_, _)
ScaledCarry(seed, k) ==
    (seed[k + 1] * RateUnit + (IF k = 0 THEN 0 ELSE ScaledCarry(seed, k - 1))) \div ByteBase

\* rand_val < self.error_rate, for rand_val = seed / 2^64 (u64::MAX as f64 is
\* 2^64): floor(seed * RateUnit / 2^64) is below the rate in hundredths
HasError(seed, error_rate) == ScaledCarry(seed, U64Len - 1) < error_rate

llmFrame == <<bftVars, agVars, simVars, dual, stat, wf, sched, cache, tally, calls, rel>>

\* SimulatedLLM::generate_code(&mut self, task); `first` keeps the result
\* of the first call
GenerateCode(task) ==
    /\ llm.ncalls < MaxGen
    /\ LET seed == Advance(llm.seed)
           is_correct == ~HasError(seed, llm.error_rate)
       IN  llm' = [llm EXCEPT !.op = "generate_code", !.seed = seed,
                              !.ncalls = @ + 1, !.ret = is_correct,
                              !.first = IF llm.ncalls = 0 THEN is_correct ELSE @]
    /\ UNCHANGED llmFrame

DoGenerateCode == \E task \in {"task"} : GenerateCode(task)

InitLlm ==
    /\ IdleBft /\ IdleAgents /\ IdleSim
    /\ dual = Unused /\ stat = Unused /\ wf = Unused /\ sched = Unused /\ cache = Unused /\ tally = Unused
    /\ calls = Unused
    /\ rel = Unused
    /\ \E error_rate \in LlmRates, seed \in LlmSeeds : llm = SimulatedLLMNew(error_rate, seed)

SpecLlm == InitLlm /\ [][DoGenerateCode]_vars

\* C19: generate_code on the same task returns the same correctness result
\* on every call and leaves the seed of the model as it was constructed.
C19_GenerateCodePure ==
    llm.op = "generate_code" => (llm.ret = llm.first /\ llm.seed = llm.seed0)

(***************************************************************************)
(* byzantine_simulation.rs: what a simulate_* call hands to the strategy.  *)
(***************************************************************************)
\* a simulate_* call has returned; acc and invoked are as it left them
Returned == run = IdleRun /\ \E key \in RunKeys : results[key] # <<>>

\* C20: a simulate_* call invokes the strategy exactly once for every pair of
\* a trial t below trials and a task k below tasks_per_trial, with task_id k
\* and seed t, and for no other arguments; every SimulationResult returned has
\* total_tasks = trials * tasks_per_trial and successes <= total_tasks.
C20_EachPairInvokedOnce ==
    Returned =>
        /\ DOMAIN invoked = {[task_id |-> p[2], seed |-> p[1]] : p \in AllPairs}
        /\ \A i \in DOMAIN invoked : invoked[i] = 1
        /\ \A key \in RunKeys : \A n \in DOMAIN results[key] :
              /\ results[key][n].total_tasks = sim.trials * sim.tasks_per_trial
              /\ results[key][n].successes <= results[key][n].total_tasks

\* a returned simulate_bft_system(3, _) of two trials of two tasks, with
\* successes and failures among the four
C20_Witness ==
    /\ Returned
    /\ sim = MonteCarloNew(2, 2)
    /\ DOMAIN invoked = {[task_id |-> k, seed |-> t] : k \in 0..1, t \in 0..1}
    /\ Len(results[BftKey(3)]) = 1
    /\ results[BftKey(3)][1].total_tasks = 4
    /\ results[BftKey(3)][1].successes \in 1..3

(***************************************************************************)
(* byzantine_simulation.rs: what simulate_bft_system counts as a success.  *)
(***************************************************************************)
\* what byzantine_consensus reports for the pair the loop is at
ConsensusAt(task, trial) ==
    ByzantineConsensus(UniformAgents(run.num_agents, rate), task, trial)

\* C21: an iteration of simulate_bft_system adds 1 to the successes exactly
\* when byzantine_consensus reported consensus for its (trial, task), leaves
\* the failure counts alone in that case and otherwise adds the failing agents'
\* modes to them; a returned result's successes are the number of pairs with
\* consensus.
C21_NoConsensusNeverSuccess ==
    /\ [](\A n \in {3, 5} : \A i \in DOMAIN results[BftKey(n)] :
            results[BftKey(n)][i].successes =
                Cardinality({p \in AllPairs :
                    ByzantineConsensus(UniformAgents(n, rate), p[2], p[1]).reached}))
    /\ [][(run.fn = "simulate_bft_system" /\ acc' # acc) =>
            LET r == ConsensusAt(loop_task_id, loop_trial)
            IN  /\ acc'.total_successes =
                      acc.total_successes + (IF r.reached THEN 1 ELSE 0)
                /\ r.reached => acc'.failures = acc.failures
                /\ ~r.reached => acc'.failures = MergeCounts(acc.failures, r.failures)]_vars

\* C21 witness: simulate_bft_system(3, 0.005) over two trials of two tasks is
\* past its last pair (trial 1, task 1), where agent 0 fails and consensus is
\* reached; the three pairs before it had no consensus and put their 3 + 2 + 3
\* failing agents into the failure counts.
C21_Witness ==
    /\ run = BftKey(3)
    /\ rate = 50
    /\ sim = MonteCarloNew(2, 2)
    /\ loop_trial = 2
    /\ acc.total_tasks = 4
    /\ acc.total_successes = 1
    /\ ~Execute(AgentNew(0, rate), 1, 1).success
    /\ SumValues(acc.failures) = 8

(***************************************************************************)
(* byzantine_simulation.rs: one agent executed on consecutive task_ids, as *)
(* the loop of test_failure_mode_distribution does.  Every (success, mode) *)
(* pair returned is kept under its task_id, next to the test's own counts. *)
(***************************************************************************)
\* largest task_id the loop starts at (the test starts at 0)
MaxStart == 2
\* most iterations of the loop
MaxTallied == 120

\* the seeds of the loops: 0 and the test's 42
TallySeeds == {0, 42}

\* let agent = Agent::new(id, rate); let mut modes = HashMap::new();
TallyNew(agent, seed, start) ==
    [op |-> "tally", agent |-> agent, seed |-> seed, start |-> start,
     task_id |-> start, modes |-> [m \in {} |-> 0], executed |-> [t \in {} |-> 0]]

\* let (_, mode) = agent.execute(task_id, seed); *modes.entry(mode).or_insert(0) += 1;
TallyStep ==
    /\ tally.task_id < tally.start + MaxTallied
    /\ LET r == Execute(tally.agent, tally.task_id, tally.seed)
       IN  tally' = [tally EXCEPT
                        !.task_id = @ + 1,
                        !.modes = AddCount(@, r.mode, 1),
                        !.executed = [t \in DOMAIN @ \cup {tally.task_id} |->
                                        IF t = tally.task_id THEN r ELSE @[t]]]
    /\ UNCHANGED <<bftVars, agVars, simVars, dual, stat, llm, wf, sched, cache, calls, rel>>

InitTally ==
    /\ IdleBft /\ IdleAgents /\ IdleSim
    /\ dual = Unused /\ stat = Unused /\ llm = Unused /\ wf = Unused
    /\ sched = Unused /\ cache = Unused
    /\ calls = Unused
    /\ rel = Unused
    /\ \E id \in 0..MaxAgentId, r \in Rates, seed \in TallySeeds, start \in 0..MaxStart :
          tally = TallyNew(AgentNew(id, r), seed, start)

SpecTally == InitTally /\ [][TallyStep]_vars

\* the executions of the 100 task_ids from `from` on that returned `mode`
ModeCount(from, mode) ==
    Cardinality({t \in from..(from + ModeMod - 1) : tally.executed[t].mode = mode})

\* C22: every execution returns one of the four modes, Success exactly when it
\* succeeded; an agent with failure_rate 1.0 fails every time, and over any 100
\* consecutive task_ids it returns Hallucination 60 times, Corruption 25 times
\* and Crash 15 times.
C22_FixedSplit ==
    /\ \A t \in DOMAIN tally.executed :
          /\ tally.executed[t].mode \in {"Success", "Hallucination", "Corruption", "Crash"}
          /\ tally.executed[t].success <=> tally.executed[t].mode = "Success"
          /\ tally.agent.failure_rate = HashMod => ~tally.executed[t].success
    /\ tally.agent.failure_rate = HashMod =>
          \A from \in DOMAIN tally.executed :
              from + ModeMod - 1 \in DOMAIN tally.executed =>
                  /\ ModeCount(from, "Hallucination") = 60
                  /\ ModeCount(from, "Corruption") = 25
                  /\ ModeCount(from, "Crash") = 15

\* C22 witness: agent 3 with failure_rate 1.0 has executed the task_ids 1..120,
\* which hold 21 windows of 100 consecutive task_ids, the last one 21..120.
C22_Witness ==
    /\ tally.agent = AgentNew(3, HashMod)
    /\ tally.start = 1
    /\ tally.task_id = 121
    /\ ModeCount(21, "Hallucination") = 60
    /\ ModeCount(21, "Crash") = 15

(***************************************************************************)
(* workflow_orchestration.rs: the order compute_execution_order leaves     *)
(* does not depend on how the Workflow was built or is iterated.           *)
(***************************************************************************)
\* the ids of S in ascending order
RECURSIVE Sorted(_)
Sorted(S) ==
    IF S = {} THEN <<>>
    ELSE LET least == CHOOSE x \in S : \A y \in S : x <= y
         IN  <<least>> \o Sorted(S \ {least})

\* the execution_order computed from the task map alone, with both HashMaps
\* iterated in the order of the ids
ReferenceOrder(tasks) ==
    ComputeWith([tasks |-> tasks, execution_order |-> <<>>],
                Sorted(DOMAIN tasks), Sorted(DOMAIN tasks)).execution_order

\* C23: an Ok compute_execution_order leaves the execution_order that the task
\* map alone determines, whatever the order of the add_task calls and the
\* iteration orders of the HashMaps, and a second call on the same tasks leaves
\* the same order; execute returns the execution_order and every task listed
\* in it is Completed.
C23_OrderingDeterministic ==
    /\ []((wf.op = "compute_execution_order" /\ wf.ret.ok) =>
            wf.execution_order = ReferenceOrder(wf.tasks))
    /\ [](wf.op = "execute" =>
            /\ wf.executed = wf.execution_order
            /\ \A i \in DOMAIN wf.execution_order :
                  wf.tasks[wf.execution_order[i]].status = "Completed")
    /\ [][(/\ wf.op = "compute_execution_order" /\ wf.ret.ok
           /\ wf'.op = "compute_execution_order" /\ wf'.ret.ok) =>
            wf'.execution_order = wf.execution_order]_vars

\* C23 witness: the workflow of test_determinism, two tasks without
\* dependencies and a third that depends on both, added with the dependent
\* task first, then ordered and executed.
C23_Witness ==
    /\ wf.op = "execute"
    /\ wf.added = <<3, 2, 1>>
    /\ wf.tasks[3].dependencies = <<1, 2>>
    /\ wf.tasks[1].dependencies = <<>> /\ wf.tasks[2].dependencies = <<>>
    /\ wf.executed = <<1, 2, 3>>

(***************************************************************************)
(* byzantine_simulation.rs: the failure counts of a SimulationResult.      *)
(***************************************************************************)
\* C24: in every SimulationResult returned by simulate_single_agent and by
\* simulate_bft_system the failure counts sum to the number of failed tasks:
\* total_failures() = total_tasks - successes.
C24_FailuresSumToFailedTasks ==
    \A key \in RunKeys : \A i \in DOMAIN results[key] :
        TotalFailures(results[key][i]) =
            results[key][i].total_tasks - results[key][i].successes

MaxSetCalls == 3

\* the slices handed to set_byzantine on a BftConsensus of n nodes: those of
\* main (&[0], &[0, 1]), the empty one, one with a repeated id, the last node,
\* and ids at and beyond nodes.len()
Slices(n) == {<<>>, <<0>>, <<0, 1>>, <<2, 2>>, <<n - 1, 0>>, <<n>>, <<n + 5, 1>>}

\* a call of set_byzantine, kept in `calls`
RecordedSetByzantine(node_ids) ==
    /\ Len(calls.made) < MaxSetCalls
    /\ nodes' = SetByzantineLoop(nodes, node_ids)
    /\ op' = "set_byzantine"
    /\ input' = 0
    /\ ret' = None
    /\ calls' = [calls EXCEPT !.made = Append(@, node_ids)]
    /\ UNCHANGED <<fault_tolerance, agVars, simVars, dual, stat, llm, wf, sched, cache, tally, rel>>

DoRecordedSetByzantine == \E node_ids \in Slices(Len(nodes)) : RecordedSetByzantine(node_ids)

InitSetCalls ==
    /\ InitBft /\ IdleAgents /\ IdleSim
    /\ dual = Unused /\ stat = Unused /\ llm = Unused /\ wf = Unused
    /\ sched = Unused /\ cache = Unused /\ tally = Unused
    /\ rel = Unused
    /\ calls = [op |-> "set_byzantine", made |-> <<>>]

SpecSetCalls == InitSetCalls /\ [][DoRecordedSetByzantine]_vars

\* node id was in a slice handed to set_byzantine
WasHanded(id) ==
    \E c \in DOMAIN calls.made : \E j \in DOMAIN calls.made[c] : calls.made[c][j] = id

\* C26: after any sequence of set_byzantine calls there are still 3f+1 nodes
\* with ids 0..3f and fault_tolerance is still f; the Byzantine nodes are
\* exactly those whose id was handed in, so ids from 3f+1 on change nothing;
\* no call makes a Byzantine node honest; and repeating the call just made
\* changes nothing.
C26_SetByzantinePreserves ==
    /\ [](/\ Len(nodes) = 3 * fault_tolerance + 1
          /\ \A i \in DOMAIN nodes :
                /\ nodes[i].id = i - 1
                /\ nodes[i].is_byzantine <=> WasHanded(i - 1))
    /\ [][/\ fault_tolerance' = fault_tolerance
          /\ \A i \in DOMAIN nodes : nodes[i].is_byzantine => nodes'[i].is_byzantine]_vars
    /\ [][(/\ calls.made # <<>>
           /\ calls'.made = Append(calls.made, calls.made[Len(calls.made)])) =>
            nodes' = nodes]_vars

\* C26 witness: on a BftConsensus of four nodes, set_byzantine(&[0, 1]), then
\* set_byzantine(&[4]) with an id that is no node, then set_byzantine(&[0, 1])
\* again: nodes 0 and 1 are Byzantine.
C26_Witness ==
    /\ fault_tolerance = 1
    /\ calls.made = <<(<<0, 1>>), (<<4>>), (<<0, 1>>)>>
    /\ ByzantineCount = 2
    /\ nodes[1].is_byzantine /\ nodes[2].is_byzantine

(***************************************************************************)
(* dual_model_consensus.rs: what dual_model_consensus lets through         *)
(* (checked under SpecDual).                                               *)
(***************************************************************************)
\* model A or model B produced the expected output of the task
SomeModelCorrect ==
    \/ dual.response_a.output = dual.task.expected_output
    \/ dual.response_b.output = dual.task.expected_output

\* C27 (as stated): for every task and seed the output of dual_model_consensus
\* is the task's expected_output or the consensus failure, and it is the
\* expected_output exactly when model A or model B produced expected_output.
C27_NeverPassesWrongAnswer ==
    dual.op = "dual_model_consensus" =>
        /\ dual.ret.output \in {dual.task.expected_output, ConsensusFailure}
        /\ dual.ret.output = dual.task.expected_output <=> SomeModelCorrect

\* C27 (amended): the same for every task whose expected_output is not the
\* text of the consensus failure itself; for a task whose expected_output is
\* that text the output equals expected_output for every seed, also when
\* neither model produced it.
C27_NeverPassesWrongAnswerUnlessMarker ==
    dual.op = "dual_model_consensus" =>
        /\ dual.ret.output \in {dual.task.expected_output, ConsensusFailure}
        /\ dual.task.expected_output # ConsensusFailure =>
              (dual.ret.output = dual.task.expected_output <=> SomeModelCorrect)
        /\ dual.task.expected_output = ConsensusFailure =>
              dual.ret.output = dual.task.expected_output

\* C27 witness: an ordinary task on which model A hallucinates and model B
\* answers with the expected output, which is returned.
C27_Witness ==
    /\ dual.op = "dual_model_consensus"
    /\ dual.task.expected_output = <<"fn function() { }">>
    /\ dual.response_a.output = <<"HALLUCINATION: ", "fn function() { }", "_wrong">>
    /\ dual.response_b.output = dual.task.expected_output
    /\ dual.ret.output = dual.task.expected_output

(***************************************************************************)
(* reliability_test.rs: SingleModelSystem, DualModelSystem, run_benchmark. *)
(* Rates and hashes are f64 in the source; the model keeps them in units   *)
(* of 1/1000.  `hash >= rate` on the f64 values agrees with the comparison *)
(* of the exact values whenever these differ (they then differ by at least *)
(* 1/1000); when the exact values are equal the rounding of the f64        *)
(* operations decides, and the model takes either outcome, fixed per       *)
(* operand tuple.  TestCase.input is never read and is left out.           *)
(***************************************************************************)
\* largest TestCase.id handed to execute directly
MaxCaseId == 20
\* largest size handed to generate_test_suite
MaxSuite == 20

\* `/ 1000.0) % 1.0`
RelHashMod == 1000
\* 0.13, 0.05, 0.95, 0.21 and 0.02 in units of 1/1000
BaseFailureRate == 130
PenaltyStep == 50
RateCap == 950
ValidationBonus == 210
RateFloor == 20
\* the seed run_benchmark hands to the executor
BenchSeed == 42

SingleModelSystemNew == [base_failure_rate |-> BaseFailureRate]

DualModelSystemNew ==
    [model_a_failure_rate |-> BaseFailureRate, model_b_failure_rate |-> BaseFailureRate]

TestCaseNew(id, complexity) ==
    [id |-> id,
     expected_output |-> <<"fn function_", ToString(id), "(x: i32) -> i32 { x * 2 }">>,
     complexity |-> complexity]

\* generate_test_suite
GenerateTestSuite(size) == [i \in 1..size |-> TestCaseNew(i - 1, 1 + ((i - 1) % 5))]

\* the complexities, seeds and suite sizes tried
Complexities == {0, 1, 5, 18}
RelSeeds == {3, BenchSeed}
SuiteSizes == {0, 1, 11, 20, MaxSuite}

TestCases ==
    UNION {{TestCaseNew(id, c) : c \in Complexities \cup {1 + (id % 5)}} :
              id \in 0..MaxCaseId}

HashA(test_case, seed) == (test_case.id * 31 + seed * 17) % RelHashMod

HashB(test_case, seed) == (test_case.id * 43 + seed * 29) % RelHashMod

ComplexityPenalty(test_case) == (test_case.complexity - 1) * PenaltyStep

\* (rate + complexity_penalty).min(0.95)
AdjustedRateA(failure_rate, test_case) ==
    LET r == failure_rate + ComplexityPenalty(test_case)
    IN  IF r < RateCap THEN r ELSE RateCap

\* (rate + complexity_penalty - validation_bonus).max(0.02)
AdjustedRateB(failure_rate, test_case) ==
    LET r == failure_rate + ComplexityPenalty(test_case) - ValidationBonus
    IN  IF r > RateFloor THEN r ELSE RateFloor

\* the operands of a comparison `hash >= rate` whose exact values are equal
TiePoint(model, test_case, seed) ==
    [model |-> model, id |-> test_case.id, complexity |-> test_case.complexity,
     seed |-> seed]

TiePoints ==
    UNION {{TiePoint("a", t, sd) : t \in {x \in TestCases :
                HashA(x, sd) = AdjustedRateA(BaseFailureRate, x)}}
           \cup {TiePoint("b", t, sd) : t \in {x \in TestCases :
                HashB(x, sd) = AdjustedRateB(BaseFailureRate, x)}} : sd \in RelSeeds}

\* hash >= rate on f64; rel.below holds the ties that the rounding turns into
\* hash < rate
AtLeast(hash, adjusted, point) ==
    IF hash = adjusted THEN point \notin rel.below ELSE hash > adjusted

\* SingleModelSystem::execute
SingleExecute(system, test_case, seed) ==
    LET adjusted_failure_rate == AdjustedRateA(system.base_failure_rate, test_case)
        passed == AtLeast(HashA(test_case, seed), adjusted_failure_rate,
                          TiePoint("a", test_case, seed))
    IN  [test_case_id |-> test_case.id,
         output |-> IF passed THEN test_case.expected_output
                    ELSE <<"INCORRECT: ">> \o test_case.expected_output
                            \o <<"_hallucinated">>,
         passed |-> passed,
         execution_time_us |-> 1500 + test_case.complexity * 200]

\* model B disagrees with a correct model A and the task is failed
RejectOnDisagreement(output_a) == [output |-> <<"CONSENSUS_FAILED">>, passed |-> FALSE]

\* result_a && !result_b: "trust Model A"
TrustModelA(output_a) == [output |-> output_a, passed |-> TRUE]

\* DualModelSystem::execute
DualExecute(system, test_case, seed) ==
    LET result_a == AtLeast(HashA(test_case, seed),
                            AdjustedRateA(system.model_a_failure_rate, test_case),
                            TiePoint("a", test_case, seed))
        output_a == IF result_a THEN test_case.expected_output
                    ELSE <<"HALLUCINATION_A: ">> \o test_case.expected_output
                            \o <<"_wrong">>
        result_b == AtLeast(HashB(test_case, seed),
                            AdjustedRateB(system.model_b_failure_rate, test_case),
                            TiePoint("b", test_case, seed))
        final == IF result_a
                 THEN (IF result_b THEN [output |-> output_a, passed |-> TRUE]
                       ELSE TrustModelA(output_a))
                 ELSE (IF result_b
                       THEN [output |-> test_case.expected_output, passed |-> TRUE]
                       ELSE [output |-> <<"CONSENSUS_FAILED">>, passed |-> FALSE])
    IN  [test_case_id |-> test_case.id,
         output |-> final.output,
         passed |-> final.passed,
         execution_time_us |-> 3200 + test_case.complexity * 400]

\* the closures main hands to run_benchmark
Executor(executor, test_case, seed) ==
    IF executor = "single" THEN SingleExecute(SingleModelSystemNew, test_case, seed)
    ELSE DualExecute(DualModelSystemNew, test_case, seed)

RECURSIVE TotalTime(_)
TotalTime(model_results) ==
    IF model_results = <<>> THEN 0
    ELSE Head(model_results).execution_time_us + TotalTime(Tail(model_results))

\* `total_time / total as u64` with total = 0: attempt to divide by zero
BenchPanic == [ran |-> TRUE, panicked |-> TRUE]

\* run_benchmark
RunBenchmark(test_cases, executor) ==
    LET model_results == [i \in DOMAIN test_cases |-> Executor(executor, test_cases[i], BenchSeed)]
        passed == Cardinality({i \in DOMAIN model_results : model_results[i].passed})
        failed == Cardinality({i \in DOMAIN model_results : ~model_results[i].passed})
        total == Len(test_cases)
    IN  IF total = 0 THEN BenchPanic
        ELSE [ran |-> TRUE, panicked |-> FALSE,
              total_tests |-> total,
              passed |-> passed,
              failed |-> failed,
              pass_rate |-> F64Div(passed, total),
              failure_rate |-> F64Div(failed, total),
              avg_execution_time_us |-> TotalTime(model_results) \div total,
              complexity_breakdown |->
                  [c \in {test_cases[i].complexity : i \in DOMAIN test_cases} |->
                      <<Cardinality({i \in DOMAIN model_results :
                            test_cases[i].complexity = c /\ model_results[i].passed}),
                        Cardinality({i \in DOMAIN model_results :
                            test_cases[i].complexity = c})>>]]

NotCalled == [called |-> FALSE]
Called(result) == [called |-> TRUE, ret |-> result]
NotRun == [ran |-> FALSE, panicked |-> FALSE]

relFrame == <<bftVars, agVars, simVars, dual, stat, llm, wf, sched, cache, tally, calls>>

CallSingleExecute ==
    /\ rel' = [rel EXCEPT !.op = "single_execute",
                  !.single = Called(SingleExecute(SingleModelSystemNew,
                                                  rel.test_case, rel.seed))]
    /\ UNCHANGED relFrame

CallDualExecute ==
    /\ rel' = [rel EXCEPT !.op = "dual_execute",
                  !.dual = Called(DualExecute(DualModelSystemNew,
                                              rel.test_case, rel.seed))]
    /\ UNCHANGED relFrame

\* run_benchmark(&test_cases, |tc, seed| system.execute(tc, seed))
CallRunBenchmark(executor) ==
    /\ rel' = [rel EXCEPT !.op = "run_benchmark",
                  !.bench[executor] = RunBenchmark(GenerateTestSuite(rel.size), executor)]
    /\ UNCHANGED relFrame

DoRunBenchmark == \E executor \in {"single", "dual"} : CallRunBenchmark(executor)

\* failure_reduction of main and of test_failure_reduction_claim: every value
\* a build can compute for the difference and for the percentage
CallReliabilityReduction ==
    /\ \A executor \in {"single", "dual"} :
          rel.bench[executor].ran /\ ~rel.bench[executor].panicked
    /\ LET difference == UsizeSub(rel.bench["single"].failed, rel.bench["dual"].failed)
       IN  rel' = [rel EXCEPT
                      !.op = "failure_reduction",
                      !.difference = difference,
                      !.failure_reduction =
                          {F64Times100(F64DivOutcome(n, rel.bench["single"].failed)) :
                              n \in difference}]
    /\ UNCHANGED relFrame

InitRel ==
    /\ IdleBft /\ IdleAgents /\ IdleSim
    /\ dual = Unused /\ stat = Unused /\ llm = Unused /\ wf = Unused
    /\ sched = Unused /\ cache = Unused /\ tally = Unused /\ calls = Unused
    /\ \E test_case \in TestCases, seed \in RelSeeds, size \in SuiteSizes,
          below \in SUBSET TiePoints :
          rel = [op |-> "new", below |-> below, test_case |-> test_case, seed |-> seed,
                 size |-> size, single |-> NotCalled, dual |-> NotCalled,
                 bench |-> [executor \in {"single", "dual"} |-> NotRun],
                 difference |-> {}, failure_reduction |-> {}]

NextRel == CallSingleExecute \/ CallDualExecute \/ DoRunBenchmark \/ CallReliabilityReduction

SpecRel == InitRel /\ [][NextRel]_vars

\* both benchmarks of the suite have returned
BothRan ==
    \A executor \in {"single", "dual"} :
        rel.bench[executor].ran /\ ~rel.bench[executor].panicked

\* C28: on the same test case and seed, DualModelSystem::execute passes
\* whenever SingleModelSystem::execute passes; so over one suite the dual
\* benchmark fails at most as often as the single one, and the subtraction
\* single.failed - dual.failed of the failure reduction does not underflow.
C28_DualPassesWhereSinglePasses ==
    /\ (rel.single.called /\ rel.dual.called) =>
          (rel.single.ret.passed => rel.dual.ret.passed)
    /\ BothRan => rel.bench["dual"].failed <= rel.bench["single"].failed
    /\ rel.op = "failure_reduction" =>
          rel.difference =
              {Usize(rel.bench["single"].failed - rel.bench["dual"].failed)}

\* C28 witness: on test case 10 with seed 42 the single system failed and the
\* dual system passed; over generate_test_suite(20) the single system failed 7
\* times and the dual system once, and the failure reduction was computed.
C28_Witness ==
    /\ rel.op = "failure_reduction"
    /\ rel.size = 20
    /\ rel.bench["single"].failed = 7
    /\ rel.bench["dual"].failed = 1
    /\ rel.difference = {Usize(6)}
    /\ rel.test_case = TestCaseNew(10, 1) /\ rel.seed = 42
    /\ rel.single.called /\ ~rel.single.ret.passed
    /\ rel.dual.called /\ rel.dual.ret.passed

(***************************************************************************)
(* byzantine_simulation.rs: the failure mode and the seed                  *)
(***************************************************************************)
\* C29: for a fixed agent and task_id the failure mode of Agent::execute does
\* not depend on the seed: a failing call has the failure mode of the first
\* failing call on that task_id, and of every other seed that fails on it.
C29_FailureModeIgnoresSeed ==
    /\ (/\ first.fn = "execute" /\ acall.fn = "execute"
        /\ acall.agent = first.agent
        /\ acall.task_id = first.task_id
        /\ ~first.ret.success /\ ~acall.ret.success)
           => acall.ret.mode = first.ret.mode
    /\ (acall.fn = "execute" /\ ~acall.ret.success) =>
          \A seed \in Seeds :
              LET other == Execute(agents[acall.agent], acall.task_id, seed)
              IN  ~other.success => other.mode = acall.ret.mode

\* C29 witness: agent 0 of failure rate 0.03 failed on task 0 with seed 0
\* (hash 0) and then with seed 42 (hash 294), both times as a Hallucination.
C29_Witness ==
    /\ first.fn = "execute" /\ acall.fn = "execute"
    /\ agents[1] = AgentNew(0, 300)
    /\ first.task_id = 0 /\ acall.task_id = 0
    /\ first.seed = 0 /\ acall.seed = 42
    /\ ~first.ret.success /\ ~acall.ret.success
    /\ first.ret.mode = "Hallucination" /\ acall.ret.mode = "Hallucination"

====
